---- MODULE Spec2Model ----
(***************************************************************************)
(* Directory view of the file selector (src/src/dir_view.rs): the          *)
(* debounced thumbnail batcher.  Entries that lack a valid thumbnail are   *)
(* collected in no_thumbnails while items are bound; a one-shot timeout    *)
(* that every such bind restarts sends the collected URIs to the           *)
(* thumbnailer over D-Bus; ThumbnailingDone signals apply the results.     *)
(* Spec is the batcher.  ViewSpec is the sorter and the filter of the same *)
(* widget: the sort and filter properties, their setters and the hints     *)
(* the setters emit.                                                       *)
(***************************************************************************)
EXTENDS Integers, FiniteSets, Sequences, TLC

\* ------------------------------------------------------------------ bounds
\* clock ticks per second
TicksPerSec == 1
\* ThumbnailFiles calls awaiting their reply
MaxCalls == 1

\* ------------------------------------------------------------- constants
THUMBNAILS_DEBOUNCE_SECS == 1

Window == THUMBNAILS_DEBOUNCE_SECS * TicksPerSec

\* ---------------------------------------------------------------- values
NoFolder == "none"
Folders == {"A", "B"}
\* an entry's key is its URI; the URI names the folder the entry lies in
\* folder A holds two entries, folder B one
Keys == {<<"A", "a">>, <<"A", "b">>, <<"B", "a">>}
KeysOf(f) == {k \in Keys : k[1] = f}
\* grid items: the list-item widgets, which the grid view recycles
Items == {"w1", "w2"}
\* a ThumbnailingDone value is a string (the thumbnail path) or another variant
NotAString == <<"not-a-string", "">>
NoPath == <<"no-path", "">>
PathOf(k) == k
IsPath(v) == v \in Keys
EmptyMap == << >>

\* outcomes of the ThumbnailFiles call
Results == {"Ok", "ServiceUnknown", "DBusOther", "IOError", "Cancelled"}

VARIABLES
    folder,             \* imp::DirView.folder
    no_thumbnails,      \* imp::DirView.no_thumbnails: URI -> grid item
    debounce_id,        \* imp::DirView.debounce_id: 0 is None
    thumbnailer_proxy,  \* imp::DirView.thumbnailer_proxy: "None" or "Some"
    cancelled,          \* imp::DirView.cancellable has been cancelled
    timers,             \* armed main-loop timeout sources
    proxy_request,      \* DBusProxy::for_bus has not called back yet
    calls,              \* ThumbnailFiles calls awaiting their reply
    params,             \* the URIs of the latest ThumbnailFiles call
    items,              \* grid items: the thumbnail each one shows
    sinceObserve,       \* ticks since the last bind that lacked a thumbnail
    burst,              \* "idle", "open" (timer due), "flushed", "double"
    observed,           \* URIs bound without thumbnail since the last flush
    last                \* the operation that ran last, see Event

VARIABLES
    sort_mode,          \* imp::DirView.sort_mode
    reversed,           \* imp::DirView.reversed
    directories_first,  \* imp::DirView.directories_first
    show_hidden,        \* imp::DirView.show_hidden
    directories_only,   \* imp::DirView.directories_only
    search_term,        \* imp::DirView.search_term: {} is None, {t} Some(t)
    display_mode,       \* imp::DirView.display_mode
    entries,            \* the file infos directory_list holds
    emitted             \* what the setter that ran last emitted, see Emit

VARIABLES
    has_selection,      \* imp::DirView.has_selection
    selected_item,      \* single_selection's selected item, NoItem if none
    returned,           \* what the last selected() call returned
    aborted,            \* the process has panicked
    type_filter,        \* imp::DirView.type_filter: {} is None, {f} Some(f)
    real_filter,        \* imp::DirView.real_filter
    loading,            \* directory_list.is_loading()
    shown               \* the entry each grid item was last bound to;
                        \* recorded under BindSpec only

VARIABLES
    hold_count,         \* imp::PfsOpenApplication.hold_count (u32)
    hold_guard,         \* imp::PfsOpenApplication.hold_guard is Some
    selectors,          \* the launcher's file selector windows
    props,              \* the file-properties windows: FileProps.done, the
                        \* window is open, the "done" signals emitted
    dialogs,            \* open "Error opening file" dialogs
    reply               \* the reply to the latest FileManager1 method call

appVars == <<hold_count, hold_guard, selectors, props, dialogs, reply>>

selectVars == <<has_selection, selected_item, returned, aborted>>

typeVars == <<type_filter, real_filter>>

\* what neither the batcher nor the sorter and the search filter write
otherVars == <<selectVars, typeVars, loading, shown, appVars>>

viewVars == <<sort_mode, reversed, directories_first, show_hidden,
              directories_only, search_term, display_mode, entries, emitted>>

\* last: op, the operation; arg, its argument (bind: the entry has a valid
\* thumbnail; set_folder: the folder changed; timeout: a request was sent;
\* files_ready: the result; done: the folder of the URIs); hit, a key of the
\* operation was in no_thumbnails; miss, a key of the operation was not;
\* warned, the operation logged a warning
Flag(b) == IF b THEN "yes" ELSE "no"

Event(op, arg, hit, miss, warned) ==
    [op |-> op, arg |-> arg, hit |-> hit, miss |-> miss, warned |-> warned]

vars == <<folder, no_thumbnails, debounce_id, thumbnailer_proxy, cancelled,
          timers, proxy_request, calls, params, items, sinceObserve, burst,
          observed, last, viewVars, otherVars>>

batcherVars == <<folder, no_thumbnails, debounce_id, thumbnailer_proxy,
                 cancelled, timers, proxy_request, calls, params, items,
                 sinceObserve, burst, observed, last>>


\* ------------------------------------------------- sorter and filter values
\* Strings are sequences of characters.  Alphabet lists the characters used,
\* in code-point order, which is the order str::cmp compares by.
Alphabet == <<" ", ".", "A", "E", "R", "a", "b", "d", "e", "h", "i", "n",
              "p", "r", "t", "x">>

CharCode(c) == CHOOSE i \in 1..Len(Alphabet) : Alphabet[i] = c

\* char::to_lowercase
Lower(c) ==
    CASE c = "A" -> "a"
      [] c = "E" -> "e"
      [] c = "R" -> "r"
      [] OTHER -> c

\* str::to_lowercase
ToLowercase(str) == [i \in 1..Len(str) |-> Lower(str[i])]

IsWhitespace(c) == c = " "

\* str::trim: leading and trailing whitespace removed
RECURSIVE TrimStart(_)
TrimStart(str) ==
    IF str # << >> /\ IsWhitespace(Head(str)) THEN TrimStart(Tail(str))
    ELSE str

RECURSIVE TrimEnd(_)
TrimEnd(str) ==
    IF str # << >> /\ IsWhitespace(str[Len(str)])
    THEN TrimEnd(SubSeq(str, 1, Len(str) - 1))
    ELSE str

Trim(str) == TrimEnd(TrimStart(str))

\* str::starts_with
StartsWith(str, prefix) ==
    /\ Len(prefix) <= Len(str)
    /\ SubSeq(str, 1, Len(prefix)) = prefix

\* Ord::cmp on strings: lexicographic by code point
RECURSIVE StrCmp(_, _)
StrCmp(s1, s2) ==
    IF s1 = << >> /\ s2 = << >> THEN "Equal"
    ELSE IF s1 = << >> THEN "Less"
    ELSE IF s2 = << >> THEN "Greater"
    ELSE IF CharCode(Head(s1)) < CharCode(Head(s2)) THEN "Less"
    ELSE IF CharCode(Head(s1)) > CharCode(Head(s2)) THEN "Greater"
    ELSE StrCmp(Tail(s1), Tail(s2))

\* mutant: a missing modification time compares equal to every time
TimeCmp_NoneIsEqual(t1, t2) ==
    IF t1 = 0 \/ t2 = 0 THEN "Equal"
    ELSE IF t1 < t2 THEN "Less" ELSE IF t1 > t2 THEN "Greater" ELSE "Equal"

\* Ord::cmp on Option<DateTime>: 0 is None, which is less than every Some
TimeCmp(t1, t2) ==
    IF t1 < t2 THEN "Less" ELSE IF t1 > t2 THEN "Greater" ELSE "Equal"

\* Option<String>
None == {}
Some(str) == {str}
Unwrap(opt) == CHOOSE str \in opt : TRUE

\* gio::FileInfo: display name, content type, modification time
FileInfo(name, type, mtime) ==
    [display_name |-> name, content_type |-> type,
     modification_date_time |-> mtime]

BTxt == FileInfo(<<"b", ".", "t", "x", "t">>, "text/plain", 2)
DirA == FileInfo(<<"A">>, "inode/directory", 1)
Hidden == FileInfo(<<".", "h", "i", "d", "d", "e", "n">>, "text/plain", 1)
FileA == FileInfo(<<"A">>, "text/plain", 2)
Report == FileInfo(<<"R", "e", "p", "t">>, "text/plain", 3)
SpaceRep == FileInfo(<<" ", "r", "e", "p">>, "text/plain", 0)
DirRe == FileInfo(<<"r", "e">>, "inode/directory", 3)
HiddenDir == FileInfo(<<".", "r", "e">>, "inode/directory", 0)

FileInfos == {BTxt, DirA, Hidden, FileA, Report, SpaceRep, DirRe, HiddenDir}

\* the contents a folder can have
Listings == {{BTxt, DirA, Hidden}, {Report, SpaceRep, DirRe, HiddenDir},
             {DirA, FileA, BTxt}}

\* the terms set_search_term is called with
RawTerms == {None, Some(<< >>), Some(<<"r", "e">>), Some(<<"r", "e", "p">>),
             Some(<<"a", "x">>), Some(<<" ", "R", "e">>),
             Some(<<"R", "E", "P", " ">>), Some(<<" ">>)}

SortModes == {"DisplayName", "ModificationTime"}
\* SortMode::default()
SortModeDefault == "DisplayName"

\* folders with a local path; folder B is a virtual location (recent:///)
NativeFolders == {"A"}

\* gio::File::path() is Some
HasPath(f) == f \in NativeFolders

\* util::is_valid_folder(&Option<gio::File>)
IsValidFolder(f) == f # NoFolder /\ HasPath(f)

\* gio::File::uri() of a folder and of the file of a list item
FolderUri(f) == <<"folder", <<f>>>>
ItemUri(info) == <<"item", info.display_name>>

\* single_selection: no item, or one of two items of the listing
NoItem == FileInfo(<< >>, "", 0)
Selectables == {DirA, BTxt}

\* gtk::FileFilter objects a caller passes: two distinct objects with the same
\* rule, and one that already accepts directories
FileFilter(id, mimes) == [id |-> id, mimes |-> mimes]
FileFilters == {FileFilter("images", {"image/png"}),
                FileFilter("images2", {"image/png"}),
                FileFilter("docs", {"text/plain", "inode/directory"})}

MimeTypes == {"image/png", "text/plain", "inode/directory"}

\* FileFilter::from_gvariant(&filter.to_gvariant()): a new object, same rules
FromGvariant(filter) == FileFilter("copy", filter.mimes)

\* FileFilter::add_mime_type
AddMimeType(filter, mime) == FileFilter(filter.id, filter.mimes \cup {mime})

\* the filter accepts files of the MIME type
Accepts(filter, mime) == mime \in filter.mimes

NoKey == <<"none", "">>

\* ------------------------------------------- launcher (pfs-open) values
\* hold_count is a Cell<u32>; a count is written as the two's-complement
\* reading of its 32 bits, in which u32::MAX (4294967295) reads -1
U32Max == -1

\* the windows the launcher can have open; an error dialog per failed open
SelectorIds == {"s1", "s2"}
PropsIds == {"p1", "p2"}
MaxDialogs == 1
\* how far below zero (wrapped around) the model follows hold_count
MaxWrapped == 1

\* org.freedesktop.FileManager1 method names; "Other" is any other name
KnownMethods == {"ShowFolders", "ShowItems", "ShowItemProperties"}
Methods == KnownMethods \cup {"Other"}
\* the parameters are a variant of type (ass) or of another type
Shapes == {"(ass)", "other"}
\* the URIs of a call: "u" has a parent folder, "root" has none
UriLists == {<< >>, <<"u">>, <<"root">>, <<"u", "u">>, <<"u", "root">>,
             <<"root", "u">>}
HasParent(uri) == uri # "root"

\* a FileProps window: not created, or done flag, whether it is open, the
\* "done" signals it emitted, and the first accept click or close request
NoWindow == [created |-> FALSE, open |-> FALSE, done |-> FALSE,
             log |-> << >>, first |-> "none"]
NewFileProps == [created |-> TRUE, open |-> TRUE, done |-> FALSE,
                 log |-> << >>, first |-> "none"]

\* emitted: op, the setter that ran; sorter, the hint of the sorter's
\* "changed" signal; filter, the hint of the filter's "changed" signal;
\* notify, the properties notified; "none" when the signal was not emitted
Emit(op, sorter, filter, notify) ==
    [op |-> op, sorter |-> sorter, filter |-> filter, notify |-> notify]

\* -------------------------------------------------------- grid item (GridItem)
GridItemSetFileinfo(it, w, k, valid) ==
    [it EXCEPT ![w] = [thumbnail |-> IF valid THEN PathOf(k) ELSE NoPath]]

GridItemSetThumbnail(it, w, path) ==
    [it EXCEPT ![w].thumbnail = path]

\* ------------------------------------------------------------ map helpers
\* mutant: the insert replaces the whole map
HashMapInsert_DropsOthers(m, k, w) == [x \in {k} |-> w]

\* mutant: the insert keeps the grid item already stored under the key
HashMapInsert_KeepsOld(m, k, w) ==
    [x \in DOMAIN m \cup {k} |-> IF x \in DOMAIN m THEN m[x] ELSE w]

HashMapInsert(m, k, w) ==
    [x \in DOMAIN m \cup {k} |-> IF x = k THEN w ELSE m[x]]

HashMapRemoveAll(m, ks) ==
    [x \in DOMAIN m \ ks |-> m[x]]

\* mutant: the map is not cleared
HashMapClear_Keeps(m) == m

HashMapClear(m) == EmptyMap

\* ------------------------------------------------------------- main loop
SourceRemove(t, id) == {s \in t : s.id # id}

NewSourceId(t) ==
    CHOOSE i \in 1..(Cardinality(t) + 1) : \A s \in t : s.id # i

TimeoutAddSecondsLocalOnce(t, secs) ==
    t \cup {[id |-> NewSourceId(t), remaining |-> secs * TicksPerSec]}

Init ==
    /\ folder = NoFolder
    /\ no_thumbnails = EmptyMap
    /\ debounce_id = 0
    /\ thumbnailer_proxy = "None"
    /\ cancelled = FALSE
    /\ timers = {}
    /\ proxy_request = TRUE
    /\ calls = 0
    /\ params = {}
    /\ items = [w \in Items |-> [thumbnail |-> NoPath]]
    /\ sinceObserve = 0
    /\ burst = "idle"
    /\ observed = {}
    /\ last = Event("init", "", FALSE, FALSE, FALSE)
    /\ sort_mode = SortModeDefault
    /\ reversed = FALSE
    /\ directories_first = TRUE
    /\ show_hidden = FALSE
    /\ directories_only = FALSE
    /\ search_term = None
    /\ display_mode = "Content"
    /\ entries = {}
    /\ emitted = Emit("init", "none", "none", {})
    /\ has_selection = FALSE
    /\ selected_item = NoItem
    /\ returned = None
    /\ aborted = FALSE
    /\ type_filter = None
    /\ real_filter = None
    /\ loading = FALSE
    /\ shown = [w \in Items |-> NoKey]
    /\ hold_count = 0
    /\ hold_guard = FALSE
    /\ selectors = [s \in SelectorIds |-> "none"]
    /\ props = [p \in PropsIds |-> NoWindow]
    /\ dialogs = 0
    /\ reply = "none"

\* ---------------------------------------------------------------- actions
\* constructed(): the proxy request completes (on_proxy_ready)
OnProxyReady(ok) ==
    /\ proxy_request
    /\ cancelled => ~ok
    /\ proxy_request' = FALSE
    /\ thumbnailer_proxy' = IF ok THEN "Some" ELSE thumbnailer_proxy
    /\ last' = Event("proxy_ready", Flag(ok), FALSE, FALSE, FALSE)
    /\ UNCHANGED <<folder, no_thumbnails, debounce_id, cancelled, timers,
                   calls, params, items, sinceObserve, burst, observed>>
    /\ UNCHANGED viewVars
    /\ UNCHANGED otherVars

\* mutant: the folder's validity is not looked at
UpdateDirectorySelection_AlwaysSelected(donly, f) ==
    IF ~donly THEN has_selection ELSE TRUE

\* update_directory_selection(), run when directories_only is donly and the
\* folder is f: the has_selection it leaves (set_has_selection)
UpdateDirectorySelection(donly, f) ==
    IF ~donly THEN has_selection ELSE IsValidFolder(f)

\* mutant: the folder passed in is not stored
SetFolder_KeepsFolder(f) ==
    /\ ~cancelled
    /\ ~aborted
    /\ last' = Event("set_folder", Flag(f # NoFolder /\ f # folder),
                      FALSE, FALSE, FALSE)
    /\ UNCHANGED <<folder, no_thumbnails, observed, has_selection>>
    /\ UNCHANGED <<debounce_id, thumbnailer_proxy, cancelled, timers,
                   proxy_request, calls, params, items, sinceObserve,
                   burst>>
    /\ UNCHANGED viewVars
    /\ UNCHANGED appVars
    /\ UNCHANGED <<selected_item, returned, aborted, typeVars, loading,
                   shown>>

\* set_folder(folder)
SetFolder(f) ==
    /\ ~cancelled
    /\ ~aborted
    /\ LET changed == f # NoFolder /\ f # folder
       IN  /\ no_thumbnails' =
                IF changed THEN HashMapClear(no_thumbnails) ELSE no_thumbnails
           /\ folder' = IF changed THEN f ELSE folder
           /\ observed' = IF changed THEN {} ELSE observed
           /\ has_selection' = IF changed
                                THEN UpdateDirectorySelection(
                                         directories_only, f)
                                ELSE has_selection
           /\ last' = Event("set_folder", Flag(changed),
                             FALSE, FALSE, FALSE)
    /\ UNCHANGED <<debounce_id, thumbnailer_proxy, cancelled, timers,
                   proxy_request, calls, params, items, sinceObserve,
                   burst>>
    /\ UNCHANGED viewVars
    /\ UNCHANGED appVars
    /\ UNCHANGED <<selected_item, returned, aborted, typeVars, loading,
                   shown>>

\* mutant: the armed timeout is not removed
CancelDebounce_Keeps(t, id) == t

\* on_item_bind: `if let Some(source_id) = debounce_id.take() { remove }`
CancelDebounce(t, id) == IF id # 0 THEN SourceRemove(t, id) ELSE t

\* on_item_bind past the early return: the entry lacks a valid thumbnail
ObserveEntry(w, k) ==
    LET removed == CancelDebounce(timers, debounce_id)
    IN  /\ no_thumbnails' = HashMapInsert(no_thumbnails, k, w)
        /\ timers' = TimeoutAddSecondsLocalOnce(removed,
                                                THUMBNAILS_DEBOUNCE_SECS)
        /\ debounce_id' = NewSourceId(removed)
        /\ sinceObserve' = 0
        /\ burst' = IF burst = "double" THEN "double" ELSE "open"
        /\ observed' = observed \cup {k}

\* mutant: the early return for a valid thumbnail is missing
OnItemBind_AlwaysObserves(w, k, valid) ==
    /\ ~cancelled
    /\ folder # NoFolder
    /\ k \in KeysOf(folder)
    /\ items' = GridItemSetFileinfo(items, w, k, valid)
    /\ ObserveEntry(w, k)
    /\ last' = Event("bind", Flag(valid),
                      k \in DOMAIN no_thumbnails,
                      k \notin DOMAIN no_thumbnails, FALSE)
    /\ UNCHANGED <<folder, thumbnailer_proxy, cancelled, proxy_request,
                   calls, params>>
    /\ UNCHANGED viewVars
    /\ UNCHANGED appVars
    /\ UNCHANGED <<selectVars, typeVars, loading>>

\* on_item_bind(list_item): grid item w is bound to the entry with URI k
OnItemBind(w, k, valid) ==
    /\ ~cancelled
    /\ folder # NoFolder
    /\ k \in KeysOf(folder)
    /\ items' = GridItemSetFileinfo(items, w, k, valid)
    /\ IF valid
       THEN UNCHANGED <<debounce_id, timers, no_thumbnails, sinceObserve,
                        burst, observed>>
       ELSE ObserveEntry(w, k)
    /\ last' = Event("bind", Flag(valid),
                      k \in DOMAIN no_thumbnails,
                      k \notin DOMAIN no_thumbnails, FALSE)
    /\ UNCHANGED <<folder, thumbnailer_proxy, cancelled, proxy_request,
                   calls, params>>
    /\ UNCHANGED viewVars
    /\ UNCHANGED appVars
    /\ UNCHANGED <<selectVars, typeVars, loading>>

\* mutant: the flush empties no_thumbnails once the call is made
SendForThumbnailing_Clears ==
    IF thumbnailer_proxy = "None"
    THEN UNCHANGED <<calls, params, no_thumbnails>>
    ELSE /\ calls < MaxCalls
         /\ calls' = calls + 1
         /\ params' = DOMAIN no_thumbnails
         /\ no_thumbnails' = EmptyMap

\* mutant: the call is made whether or not there is a proxy
SendForThumbnailing_NoProxyCheck ==
    /\ calls < MaxCalls
    /\ calls' = calls + 1
    /\ params' = DOMAIN no_thumbnails
    /\ UNCHANGED no_thumbnails

\* send_for_thumbnailing(): the batch holds the keys of no_thumbnails
SendForThumbnailing ==
    IF thumbnailer_proxy = "None"
    THEN UNCHANGED <<calls, params, no_thumbnails>>
    ELSE /\ calls < MaxCalls
         /\ calls' = calls + 1
         /\ params' = DOMAIN no_thumbnails
         /\ UNCHANGED no_thumbnails

\* mutant: the closure does not clear debounce_id
Timeout_KeepsId(s) ==
    /\ s \in timers
    /\ s.remaining = 0
    /\ timers' = timers \ {s}
    /\ UNCHANGED debounce_id
    /\ SendForThumbnailing
    /\ burst' = IF burst = "open" THEN "flushed" ELSE "double"
    /\ observed' = {}
    /\ last' = Event("timeout", Flag(thumbnailer_proxy = "Some"),
                      FALSE, FALSE, FALSE)
    /\ UNCHANGED <<folder, thumbnailer_proxy, cancelled, proxy_request,
                   items, sinceObserve>>
    /\ UNCHANGED viewVars
    /\ UNCHANGED otherVars

\* the debounce timeout fires: the closure armed by on_item_bind
Timeout(s) ==
    /\ s \in timers
    /\ s.remaining = 0
    /\ timers' = timers \ {s}
    /\ debounce_id' = 0
    /\ SendForThumbnailing
    /\ burst' = IF burst = "open" THEN "flushed" ELSE "double"
    /\ observed' = {}
    /\ last' = Event("timeout", Flag(thumbnailer_proxy = "Some"),
                      FALSE, FALSE, FALSE)
    /\ UNCHANGED <<folder, thumbnailer_proxy, cancelled, proxy_request,
                   items, sinceObserve>>
    /\ UNCHANGED viewVars
    /\ UNCHANGED otherVars

\* on_thumbnail_files_ready(result): is a warning logged
IsDBusError(result) == result \in {"ServiceUnknown", "DBusOther"}

Logged(result) ==
    IF result = "Ok" THEN FALSE
    ELSE IF IsDBusError(result) THEN result # "ServiceUnknown"
    ELSE FALSE

\* the reply of a ThumbnailFiles call arrives
OnThumbnailFilesReady(result) ==
    /\ calls > 0
    /\ cancelled <=> result = "Cancelled"
    /\ calls' = calls - 1
    /\ last' = Event("files_ready", result, FALSE, FALSE,
                      Logged(result))
    /\ UNCHANGED <<folder, no_thumbnails, debounce_id, thumbnailer_proxy,
                   cancelled, timers, proxy_request, params, items,
                   sinceObserve, burst, observed>>
    /\ UNCHANGED viewVars
    /\ UNCHANGED otherVars

\* mutant: the key is looked up but not removed
DoneStep_KeepsKey(m, it, k, v) ==
    IF k \in DOMAIN m
    THEN <<m, IF IsPath(v) THEN GridItemSetThumbnail(it, m[k], v) ELSE it>>
    ELSE <<m, it>>

\* mutant: a key that is not pending empties the map
DoneStep_ClearsOnMiss(m, it, k, v) ==
    IF k \in DOMAIN m
    THEN <<HashMapRemoveAll(m, {k}),
           IF IsPath(v) THEN GridItemSetThumbnail(it, m[k], v) ELSE it>>
    ELSE <<EmptyMap, it>>

\* on_thumbnailing_done: one iteration of the loop over the result
DoneStep(m, it, k, v) ==
    IF k \in DOMAIN m
    THEN <<HashMapRemoveAll(m, {k}),
           IF IsPath(v) THEN GridItemSetThumbnail(it, m[k], v) ELSE it>>
    ELSE <<m, it>>

\* on_thumbnailing_done: the loop visits the result's keys in any order
RECURSIVE DoneLoop(_, _, _, _)
DoneLoop(m, it, r, todo) ==
    IF todo = {} THEN {<<m, it>>}
    ELSE UNION {LET s == DoneStep(m, it, k, r[k])
                IN  DoneLoop(s[1], s[2], r, todo \ {k}) : k \in todo}

ThumbnailingDoneOutcomes(m, it, r) == DoneLoop(m, it, r, DOMAIN r)

\* the results the thumbnailer can report for the URIs in ks
ResultMaps(ks) ==
    UNION {[S -> {"path", "other"}] : S \in SUBSET ks}

ResultOf(c) ==
    [k \in DOMAIN c |-> IF c[k] = "path" THEN PathOf(k) ELSE NotAString]

\* ThumbnailingDone arrives; the signal is a broadcast of the thumbnailer and
\* names URIs of one folder f, the folder shown when they were requested
OnThumbnailingDone(f, thumbnails) ==
    /\ thumbnailer_proxy = "Some"
    /\ DOMAIN thumbnails \subseteq KeysOf(f)
    /\ \E o \in ThumbnailingDoneOutcomes(no_thumbnails, items, thumbnails) :
          /\ no_thumbnails' = o[1]
          /\ items' = o[2]
    /\ observed' = observed \ DOMAIN thumbnails
    /\ last' = Event("done", f,
                      DOMAIN thumbnails \cap DOMAIN no_thumbnails # {},
                      DOMAIN thumbnails \ DOMAIN no_thumbnails # {}, FALSE)
    /\ UNCHANGED <<folder, debounce_id, thumbnailer_proxy, cancelled, timers,
                   proxy_request, calls, params, sinceObserve, burst>>
    /\ UNCHANGED viewVars
    /\ UNCHANGED otherVars

\* dispose()
Dispose ==
    /\ ~cancelled
    /\ cancelled' = TRUE
    /\ last' = Event("dispose", "", FALSE, FALSE, FALSE)
    /\ UNCHANGED <<folder, no_thumbnails, debounce_id, thumbnailer_proxy,
                   timers, proxy_request, calls, params, items,
                   sinceObserve, burst, observed>>
    /\ UNCHANGED viewVars
    /\ UNCHANGED otherVars

\* the clock advances by one tick; a timeout source never fires early
Tick ==
    /\ sinceObserve < Window \/ \E s \in timers : s.remaining > 0
    /\ timers' = {[s EXCEPT !.remaining =
                      IF s.remaining > 0 THEN s.remaining - 1 ELSE 0] :
                  s \in timers}
    /\ sinceObserve' = IF sinceObserve < Window THEN sinceObserve + 1
                       ELSE Window
    /\ last' = Event("tick", "", FALSE, FALSE, FALSE)
    /\ UNCHANGED <<folder, no_thumbnails, debounce_id, thumbnailer_proxy,
                   cancelled, proxy_request, calls, params, items, burst,
                   observed>>
    /\ UNCHANGED viewVars
    /\ UNCHANGED otherVars

Next ==
    \/ \E ok \in BOOLEAN : OnProxyReady(ok)
    \/ \E f \in Folders \cup {NoFolder} : SetFolder(f)
    \/ \E w \in Items, k \in Keys, valid \in BOOLEAN :
          OnItemBind(w, k, valid) /\ UNCHANGED shown
    \/ \E s \in timers : Timeout(s)
    \/ \E result \in Results : OnThumbnailFilesReady(result)
    \/ \E f \in Folders : \E c \in ResultMaps(KeysOf(f)) :
          OnThumbnailingDone(f, ResultOf(c))
    \/ Dispose
    \/ Tick

Spec == Init /\ [][Next]_vars

\* ------------------------------------------------------ sorter and filter
\* is_directory(fileinfo)
IsDirectory(info) == info.content_type = "inode/directory"

\* mutant: the reversed flag is not read
OrderingOf_IgnoresReversed(cmp, rev) ==
    CASE cmp = "Less" -> "Smaller"
      [] cmp = "Greater" -> "Larger"
      [] OTHER -> "Equal"

\* the match arms sort_by_name and sort_by_modification_time share
OrderingOf(cmp, rev) ==
    CASE cmp = "Less" -> IF rev THEN "Larger" ELSE "Smaller"
      [] cmp = "Greater" -> IF rev THEN "Smaller" ELSE "Larger"
      [] OTHER -> "Equal"

\* sort_by_name(info1, info2), reading the reversed flag rev
SortByName(info1, info2, rev) ==
    OrderingOf(StrCmp(info1.display_name, info2.display_name), rev)

\* sort_by_modification_time(info1, info2), reading the reversed flag rev
SortByModificationTime(info1, info2, rev) ==
    OrderingOf(TimeCmp(info1.modification_date_time,
                       info2.modification_date_time), rev)

\* mutant: the reversed flag also inverts directories-first
Sorter_ReversesDirectories(info1, info2, dfirst, mode, rev) ==
    IF dfirst /\ IsDirectory(info1) /\ ~IsDirectory(info2)
    THEN OrderingOf("Less", rev)
    ELSE IF dfirst /\ IsDirectory(info2) /\ ~IsDirectory(info1)
    THEN OrderingOf("Greater", rev)
    ELSE IF mode = "DisplayName" THEN SortByName(info1, info2, rev)
    ELSE SortByModificationTime(info1, info2, rev)

\* the CustomSorter closure of setup_sort_and_filter, reading the flags
\* dfirst (directories_first), mode (sort_mode) and rev (reversed)
Sorter(info1, info2, dfirst, mode, rev) ==
    IF dfirst /\ IsDirectory(info1) /\ ~IsDirectory(info2) THEN "Smaller"
    ELSE IF dfirst /\ IsDirectory(info2) /\ ~IsDirectory(info1) THEN "Larger"
    ELSE IF mode = "DisplayName" THEN SortByName(info1, info2, rev)
    ELSE SortByModificationTime(info1, info2, rev)

\* mutant: the display name is not trimmed before the prefix test
Filter_NoTrim(info, term, donly, shidden) ==
    IF term # None
       /\ ~StartsWith(ToLowercase(info.display_name), Unwrap(term))
    THEN FALSE
    ELSE IF donly /\ ~IsDirectory(info) THEN FALSE
    ELSE IF shidden THEN TRUE
    ELSE IF StartsWith(info.display_name, <<".">>) THEN FALSE
    ELSE TRUE

\* mutant: hidden entries pass
Filter_KeepsHidden(info, term, donly, shidden) ==
    IF term # None
       /\ ~StartsWith(ToLowercase(Trim(info.display_name)), Unwrap(term))
    THEN FALSE
    ELSE IF donly /\ ~IsDirectory(info) THEN FALSE
    ELSE TRUE

\* the CustomFilter closure of setup_sort_and_filter, reading search_term
\* (term), directories_only (donly) and show_hidden (shidden)
Filter(info, term, donly, shidden) ==
    IF term # None
       /\ ~StartsWith(ToLowercase(Trim(info.display_name)), Unwrap(term))
    THEN FALSE
    ELSE IF donly /\ ~IsDirectory(info) THEN FALSE
    ELSE IF shidden THEN TRUE
    ELSE IF StartsWith(info.display_name, <<".">>) THEN FALSE
    ELSE TRUE

\* set_sorting(sort_mode, reversed)
SetSorting(mode, rev) ==
    /\ sort_mode' = mode
    /\ reversed' = rev
    /\ emitted' = Emit("set_sorting", "Inverted", "none",
                        {"sort-mode", "reversed"})
    /\ UNCHANGED <<directories_first, show_hidden, directories_only,
                   search_term, display_mode, entries>>
    /\ UNCHANGED batcherVars
    /\ UNCHANGED otherVars

\* set_sort_mode(mode); the property is not explicit_notify, so GObject
\* notifies it after every set
SetSortMode(mode) ==
    /\ IF sort_mode = mode
       THEN /\ emitted' = Emit("set_sort_mode", "none", "none", {"sort-mode"})
            /\ UNCHANGED <<sort_mode, reversed>>
       ELSE /\ sort_mode' = mode
            /\ reversed' = reversed
            /\ emitted' = Emit("set_sort_mode", "Inverted", "none",
                                {"sort-mode", "reversed"})
    /\ UNCHANGED <<directories_first, show_hidden, directories_only,
                   search_term, display_mode, entries>>
    /\ UNCHANGED batcherVars
    /\ UNCHANGED otherVars

\* the sort state set_sorting stores
SortState(mode, rev) == [sort_mode |-> mode, reversed |-> rev]

\* mutant: flipping the flag resets the sort mode
SetReversedResult_ResetsMode(st, rev) ==
    IF st.reversed = rev THEN st ELSE SortState(SortModeDefault, rev)

\* set_reversed(reversed): the sort state it leaves, from the sort state st
SetReversedResult(st, rev) ==
    IF st.reversed = rev THEN st ELSE SortState(st.sort_mode, rev)

\* set_reversed(reversed)
SetReversed(rev) ==
    /\ LET st == SetReversedResult(SortState(sort_mode, reversed), rev)
       IN  /\ sort_mode' = st.sort_mode
           /\ reversed' = st.reversed
    /\ emitted' = IF reversed = rev
                  THEN Emit("set_reversed", "none", "none", {})
                  ELSE Emit("set_reversed", "Inverted", "none",
                            {"sort-mode", "reversed"})
    /\ UNCHANGED <<directories_first, show_hidden, directories_only,
                   search_term, display_mode, entries>>
    /\ UNCHANGED batcherVars
    /\ UNCHANGED otherVars

\* set_directories_first(v): the setter the Properties derive generates for
\* #[property(get, set)]
SetDirectoriesFirst(v) ==
    /\ directories_first' = v
    /\ emitted' = Emit("set_directories_first", "none", "none",
                        {"directories-first"})
    /\ UNCHANGED <<sort_mode, reversed, show_hidden, directories_only,
                   search_term, display_mode, entries>>
    /\ UNCHANGED batcherVars
    /\ UNCHANGED otherVars

\* mutant: the two hints are swapped
SetShowHidden_HintsSwapped(v) ==
    /\ IF show_hidden = v
       THEN /\ emitted' = Emit("set_show_hidden", "none", "none", {})
            /\ UNCHANGED show_hidden
       ELSE /\ show_hidden' = v
            /\ emitted' = Emit("set_show_hidden", "none",
                                IF v THEN "MoreStrict" ELSE "LessStrict",
                                {"show-hidden"})
    /\ UNCHANGED <<sort_mode, reversed, directories_first, directories_only,
                   search_term, display_mode, entries>>
    /\ UNCHANGED batcherVars
    /\ UNCHANGED otherVars

\* set_show_hidden(show_hidden)
SetShowHidden(v) ==
    /\ IF show_hidden = v
       THEN /\ emitted' = Emit("set_show_hidden", "none", "none", {})
            /\ UNCHANGED show_hidden
       ELSE /\ show_hidden' = v
            /\ emitted' = Emit("set_show_hidden", "none",
                                IF v THEN "LessStrict" ELSE "MoreStrict",
                                {"show-hidden"})
    /\ UNCHANGED <<sort_mode, reversed, directories_first, directories_only,
                   search_term, display_mode, entries>>
    /\ UNCHANGED batcherVars
    /\ UNCHANGED otherVars

\* set_directories_only(directories_only)
SetDirectoriesOnly(v) ==
    /\ ~aborted
    /\ IF directories_only = v
       THEN /\ emitted' = Emit("set_directories_only", "none", "none", {})
            /\ UNCHANGED <<directories_only, has_selection>>
       ELSE /\ directories_only' = v
            /\ has_selection' = UpdateDirectorySelection(v, folder)
            /\ emitted' = Emit("set_directories_only", "none",
                                IF v THEN "MoreStrict" ELSE "LessStrict",
                                {"directories-only"} \cup
                                IF has_selection' # has_selection
                                THEN {"has-selection"} ELSE {})
    /\ UNCHANGED <<sort_mode, reversed, directories_first, show_hidden,
                   search_term, display_mode, entries>>
    /\ UNCHANGED batcherVars
    /\ UNCHANGED appVars
    /\ UNCHANGED <<selected_item, returned, aborted, typeVars, loading,
                   shown>>

\* mutant: the term is lowercased but not trimmed
NormalizeTerm_NoTrim(raw) ==
    IF raw = None THEN None ELSE Some(ToLowercase(Unwrap(raw)))

\* set_search_term: `new_term = Some(term.trim().to_lowercase())`
NormalizeTerm(raw) ==
    IF raw = None THEN None ELSE Some(ToLowercase(Trim(Unwrap(raw))))

\* mutant: the two prefix tests are swapped
FilterChangeOf_Swapped(old_term, new_term) ==
    IF old_term = None \/ new_term = None THEN "Different"
    ELSE IF StartsWith(Unwrap(new_term), Unwrap(old_term)) THEN "LessStrict"
    ELSE IF StartsWith(Unwrap(old_term), Unwrap(new_term)) THEN "MoreStrict"
    ELSE "Different"

\* set_search_term: the FilterChange chosen for old_term -> new_term
FilterChangeOf(old_term, new_term) ==
    IF old_term = None \/ new_term = None THEN "Different"
    ELSE IF StartsWith(Unwrap(old_term), Unwrap(new_term)) THEN "LessStrict"
    ELSE IF StartsWith(Unwrap(new_term), Unwrap(old_term)) THEN "MoreStrict"
    ELSE "Different"

\* set_search_term: the display mode for new_term
DisplayModeOf(new_term) ==
    IF new_term # None /\ Unwrap(new_term) # << >> THEN "Search"
    ELSE "Content"

\* set_search_term(search_term)
SetSearchTerm(raw) ==
    LET new_term == NormalizeTerm(raw)
        mode == DisplayModeOf(new_term)
    IN  /\ IF search_term = new_term
           THEN /\ emitted' = Emit("set_search_term", "none", "none", {})
                /\ UNCHANGED <<search_term, display_mode>>
           ELSE /\ display_mode' = mode
                /\ search_term' = new_term
                /\ emitted' = Emit("set_search_term", "none",
                                    FilterChangeOf(search_term, new_term),
                                    {"search-term"} \cup
                                    IF display_mode # mode
                                    THEN {"display-mode"} ELSE {})
        /\ UNCHANGED <<sort_mode, reversed, directories_first, show_hidden,
                       directories_only, entries>>
        /\ UNCHANGED batcherVars
        /\ UNCHANGED otherVars

\* on_loading_changed(): directory_list started or finished loading
OnLoadingChanged(is_loading) ==
    /\ is_loading # loading
    /\ loading' = is_loading
    /\ display_mode' = IF is_loading THEN "Loading" ELSE "Content"
    /\ emitted' = Emit("on_loading_changed", "none", "none",
                        {"display-mode"})
    /\ UNCHANGED <<sort_mode, reversed, directories_first, show_hidden,
                   directories_only, search_term, entries>>
    /\ UNCHANGED batcherVars
    /\ UNCHANGED appVars
    /\ UNCHANGED <<selectVars, typeVars, shown>>

\* directory_list has enumerated the folder: its items are the file infos l
ItemsChanged(l) ==
    /\ entries' = l
    /\ emitted' = Emit("items_changed", "none", "none", {})
    /\ UNCHANGED <<sort_mode, reversed, directories_first, show_hidden,
                   directories_only, search_term, display_mode>>
    /\ UNCHANGED batcherVars
    /\ UNCHANGED otherVars

\* ------------------------------------------------- type filter, selection
\* mutant: the caller's filter is used as it is
RealFilterOf_CallersFilter(tf) == tf

\* set_type_filter: the real_filter stored for the caller's type_filter
RealFilterOf(tf) ==
    IF tf # None
    THEN Some(AddMimeType(FromGvariant(Unwrap(tf)), "inode/directory"))
    ELSE None

\* set_type_filter(type_filter); Option<FileFilter> compares the objects
SetTypeFilter(tf) ==
    /\ IF type_filter = tf
       THEN /\ emitted' = Emit("set_type_filter", "none", "none", {})
            /\ UNCHANGED <<type_filter, real_filter>>
       ELSE /\ real_filter' = RealFilterOf(tf)
            /\ type_filter' = tf
            /\ emitted' = Emit("set_type_filter", "none", "none",
                                {"type-filter", "real-filter"})
    /\ UNCHANGED <<sort_mode, reversed, directories_first, show_hidden,
                   directories_only, search_term, display_mode, entries>>
    /\ UNCHANGED batcherVars
    /\ UNCHANGED appVars
    /\ UNCHANGED <<selectVars, loading, shown>>

\* on_selection_changed(): single_selection now selects sel
OnSelectionChanged(sel) ==
    /\ ~aborted
    /\ sel # selected_item
    /\ selected_item' = sel
    /\ LET is_selected == sel # NoItem /\ ~IsDirectory(sel)
           signal == IF sel = NoItem THEN {}
                     ELSE IF IsDirectory(sel) THEN {"new-uri"}
                     ELSE {"new-filename"}
       IN  /\ has_selection' = IF directories_only THEN has_selection
                                ELSE is_selected
           /\ emitted' = Emit("on_selection_changed", "none", "none",
                               signal \cup
                               IF has_selection' # has_selection
                               THEN {"has-selection"} ELSE {})
    /\ UNCHANGED <<sort_mode, reversed, directories_first, show_hidden,
                   directories_only, search_term, display_mode, entries>>
    /\ UNCHANGED batcherVars
    /\ UNCHANGED appVars
    /\ UNCHANGED <<returned, aborted, typeVars, loading, shown>>

\* on_activate(pos): the item at pos is sel; set_selected(pos) runs
\* on_selection_changed when the selection changes, then accept is activated
\* when has_selection is set
OnActivate(sel) ==
    /\ ~aborted
    /\ selected_item' = sel
    /\ LET changed == sel # selected_item
           signal == IF ~changed THEN {}
                     ELSE IF IsDirectory(sel) THEN {"new-uri"}
                     ELSE {"new-filename"}
       IN  /\ has_selection' = IF ~changed \/ directories_only
                                THEN has_selection
                                ELSE ~IsDirectory(sel)
           /\ emitted' = Emit("on_activate", "none", "none",
                               signal \cup
                               (IF has_selection' # has_selection
                                THEN {"has-selection"} ELSE {}) \cup
                               (IF has_selection'
                                THEN {"file-selector.accept"} ELSE {}))
    /\ UNCHANGED <<sort_mode, reversed, directories_first, show_hidden,
                   directories_only, search_term, display_mode, entries>>
    /\ UNCHANGED batcherVars
    /\ UNCHANGED appVars
    /\ UNCHANGED <<returned, aborted, typeVars, loading, shown>>

\* selected(): `self.folder().unwrap()` panics when the folder is None
Selected ==
    /\ ~aborted
    /\ IF directories_only
       THEN IF folder = NoFolder
            THEN /\ aborted' = TRUE
                 /\ UNCHANGED returned
            ELSE /\ returned' = IF HasPath(folder)
                                THEN Some(<<FolderUri(folder)>>)
                                ELSE None
                 /\ UNCHANGED aborted
       ELSE /\ returned' = IF selected_item = NoItem THEN None
                           ELSE Some(<<ItemUri(selected_item)>>)
            /\ UNCHANGED aborted
    /\ emitted' = Emit("selected", "none", "none", {})
    /\ UNCHANGED <<sort_mode, reversed, directories_first, show_hidden,
                   directories_only, search_term, display_mode, entries>>
    /\ UNCHANGED batcherVars
    /\ UNCHANGED appVars
    /\ UNCHANGED <<has_selection, selected_item, typeVars, loading, shown>>

\* sorted_list over filtered_list: the file infos that pass the filter, in
\* every order the sorter allows (entries that compare Equal in any order)
Visible(es, term, donly, shidden) ==
    {e \in es : Filter(e, term, donly, shidden)}

Orders(es) ==
    {o \in [1..Cardinality(es) -> es] : \A e \in es : \E i \in DOMAIN o :
                                              o[i] = e}

IsSorted(o, dfirst, mode, rev) ==
    \A i, j \in DOMAIN o :
        i < j => Sorter(o[i], o[j], dfirst, mode, rev) # "Larger"

SortedListings(es, dfirst, mode, rev) ==
    {o \in Orders(es) : IsSorted(o, dfirst, mode, rev)}

ViewNext ==
    \/ \E mode \in SortModes, rev \in BOOLEAN : SetSorting(mode, rev)
    \/ \E mode \in SortModes : SetSortMode(mode)
    \/ \E rev \in BOOLEAN : SetReversed(rev)
    \/ \E v \in BOOLEAN : SetDirectoriesFirst(v)
    \/ \E v \in BOOLEAN : SetShowHidden(v)
    \/ \E v \in BOOLEAN : SetDirectoriesOnly(v)
    \/ \E raw \in RawTerms : SetSearchTerm(raw)
    \/ \E is_loading \in BOOLEAN : OnLoadingChanged(is_loading)
    \/ \E l \in Listings : ItemsChanged(l)

ViewSpec == Init /\ [][ViewNext]_vars

\* the sorter alone: the setters of the sort properties and the folder's
\* content
SortNext ==
    \/ \E mode \in SortModes, rev \in BOOLEAN : SetSorting(mode, rev)
    \/ \E mode \in SortModes : SetSortMode(mode)
    \/ \E rev \in BOOLEAN : SetReversed(rev)
    \/ \E v \in BOOLEAN : SetDirectoriesFirst(v)
    \/ \E l \in Listings : ItemsChanged(l)

SortSpec == Init /\ [][SortNext]_vars

\* the filter alone: the setters of the filter properties, the loading
\* state and the folder's content
FilterNext ==
    \/ \E v \in BOOLEAN : SetShowHidden(v)
    \/ \E v \in BOOLEAN : SetDirectoriesOnly(v)
    \/ \E raw \in RawTerms : SetSearchTerm(raw)
    \/ \E is_loading \in BOOLEAN : OnLoadingChanged(is_loading)
    \/ \E l \in Listings : ItemsChanged(l)
    \/ \E tf \in {None} \cup {Some(f) : f \in FileFilters} : SetTypeFilter(tf)

FilterSpec == Init /\ [][FilterNext]_vars

\* the selection alone: the folder, the directories-only mode, the selection
\* of the list and the calls of selected()
SelectNext ==
    \/ \E f \in Folders \cup {NoFolder} : SetFolder(f)
    \/ \E v \in BOOLEAN : SetDirectoriesOnly(v)
    \/ \E sel \in Selectables \cup {NoItem} : OnSelectionChanged(sel)
    \/ \E sel \in Selectables : OnActivate(sel)
    \/ Selected

SelectSpec == Init /\ [][SelectNext]_vars

\* the batcher with the entry each grid item displays recorded in shown
BindNext ==
    \/ \E ok \in BOOLEAN : OnProxyReady(ok)
    \/ \E f \in Folders \cup {NoFolder} : SetFolder(f)
    \/ \E w \in Items, k \in Keys, valid \in BOOLEAN :
          OnItemBind(w, k, valid) /\ shown' = [shown EXCEPT ![w] = k]
    \/ \E s \in timers : Timeout(s)
    \/ \E result \in Results : OnThumbnailFilesReady(result)
    \/ \E f \in Folders : \E c \in ResultMaps(KeysOf(f)) :
          OnThumbnailingDone(f, ResultOf(c))
    \/ Tick

BindSpec == Init /\ [][BindNext]_vars

\* ------------------------------------------------------------ launcher
\* the hold state of the application: hold_count, hold_guard, and whether
\* the process has panicked
AppState == [count |-> hold_count, guard |-> hold_guard, aborted |-> aborted]

\* app_hold(): `hold_count.get() + 1` panics on overflow when overflow checks
\* are compiled in and wraps otherwise
AppHold(st) ==
    IF st.aborted THEN {st}
    ELSE IF st.count = U32Max
    THEN {[st EXCEPT !.aborted = TRUE], [st EXCEPT !.count = 0]}
    ELSE {[st EXCEPT !.count = st.count + 1,
                     !.guard = IF st.count = 0 THEN TRUE ELSE st.guard]}

\* app_release(): `hold_count.get() - 1` panics on underflow when overflow
\* checks are compiled in and wraps otherwise
AppRelease(st) ==
    IF st.aborted THEN {st}
    ELSE IF st.count = 0
    THEN {[st EXCEPT !.aborted = TRUE], [st EXCEPT !.count = U32Max]}
    ELSE {[st EXCEPT !.count = st.count - 1,
                     !.guard = IF st.count = 1 THEN FALSE ELSE st.guard]}

RECURSIVE AppHoldTimes(_, _)
AppHoldTimes(sts, n) ==
    IF n = 0 THEN sts
    ELSE AppHoldTimes(UNION {AppHold(st) : st \in sts}, n - 1)

RECURSIVE AppReleaseTimes(_, _)
AppReleaseTimes(sts, n) ==
    IF n = 0 THEN sts
    ELSE AppReleaseTimes(UNION {AppRelease(st) : st \in sts}, n - 1)

\* a release is followed while the count has not wrapped MaxWrapped times
ReleaseFollowed == hold_count > U32Max + 1 - MaxWrapped

\* the application's hold state becomes st
SetAppState(st) ==
    /\ hold_count' = st.count
    /\ hold_guard' = st.guard
    /\ aborted' = st.aborted

\* mutant: a method that is not known is taken for ShowFolders
ParseCall_AcceptsAny(method, shape) ==
    IF shape = "(ass)"
    THEN (IF method \in KnownMethods THEN method ELSE "ShowFolders")
    ELSE "InvalidArgs"

\* FileManager1::parse_call(method, params): the call, or the D-Bus error
ParseCall(method, shape) ==
    IF method \in KnownMethods
    THEN (IF shape = "(ass)" THEN method ELSE "InvalidArgs")
    ELSE "UnknownMethod"

\* the files of the URIs a call opens a window for; select_item opens the
\* parent folder and does nothing for a file without parent
WindowsOf(call, uris) ==
    IF call = "ShowItems"
    THEN Cardinality({i \in DOMAIN uris : HasParent(uris[i])})
    ELSE Len(uris)

\* open_directory(dir) of the application's activate()
Activate ==
    /\ ~aborted
    /\ \E s \in SelectorIds :
          /\ selectors[s] = "none"
          /\ selectors' = [selectors EXCEPT ![s] = "held"]
    /\ \E st \in AppHold(AppState) : SetAppState(st)
    /\ UNCHANGED <<props, dialogs, reply>>
    /\ UNCHANGED batcherVars
    /\ UNCHANGED viewVars
    /\ UNCHANGED <<has_selection, selected_item, returned, typeVars, loading,
                   shown>>

\* a FileManager1 method call arrives (register_object's handler)
MethodCall(method, shape, uris) ==
    /\ ~aborted
    /\ LET call == ParseCall(method, shape)
           n == WindowsOf(call, uris)
       IN  IF call \in {"UnknownMethod", "InvalidArgs"}
           THEN /\ reply' = call
                /\ UNCHANGED <<hold_count, hold_guard, aborted, selectors,
                               props>>
           ELSE /\ reply' = "Ok"
                /\ IF call = "ShowItemProperties"
                   THEN /\ \E new \in SUBSET {p \in PropsIds :
                                                 ~props[p].created} :
                              /\ Cardinality(new) = n
                              /\ props' = [p \in PropsIds |->
                                              IF p \in new THEN NewFileProps
                                              ELSE props[p]]
                        /\ UNCHANGED selectors
                   ELSE /\ \E new \in SUBSET {s \in SelectorIds :
                                                 selectors[s] = "none"} :
                              /\ Cardinality(new) = n
                              /\ selectors' = [s \in SelectorIds |->
                                                  IF s \in new THEN "held"
                                                  ELSE selectors[s]]
                        /\ UNCHANGED props
                /\ \E st \in AppHoldTimes({AppState}, n) : SetAppState(st)
    /\ UNCHANGED dialogs
    /\ UNCHANGED batcherVars
    /\ UNCHANGED viewVars
    /\ UNCHANGED <<has_selection, selected_item, returned, typeVars, loading,
                   shown>>

\* the "done" closure of open_directory runs for selector s: the files
\* selected were opened, `gio open` failed, or nothing was selected
SelectorDone(s, success, outcome) ==
    /\ ~aborted
    /\ selectors[s] # "none"
    /\ ReleaseFollowed
    /\ LET error == success /\ outcome \in {"failed", "nothing"}
       IN  /\ error => dialogs < MaxDialogs
           /\ dialogs' = IF error THEN dialogs + 1 ELSE dialogs
           /\ \E st \in AppReleaseTimes(
                            IF error THEN AppHold(AppState) ELSE {AppState},
                            1) :
                 SetAppState(st)
    /\ selectors' = [selectors EXCEPT ![s] = "released"]
    /\ UNCHANGED <<props, reply>>
    /\ UNCHANGED batcherVars
    /\ UNCHANGED viewVars
    /\ UNCHANGED <<has_selection, selected_item, returned, typeVars, loading,
                   shown>>

\* the response closure of show_open_error's dialog runs
DialogResponse ==
    /\ ~aborted
    /\ dialogs > 0
    /\ ReleaseFollowed
    /\ dialogs' = dialogs - 1
    /\ \E st \in AppRelease(AppState) : SetAppState(st)
    /\ UNCHANGED <<selectors, props, reply>>
    /\ UNCHANGED batcherVars
    /\ UNCHANGED viewVars
    /\ UNCHANGED <<has_selection, selected_item, returned, typeVars, loading,
                   shown>>

\* -------------------------------------------- file properties (FileProps)
\* mutant: the done flag is never set
SendDone_NeverSetsDone(w, success) ==
    IF ~w.done THEN [w EXCEPT !.log = Append(w.log, success)] ELSE w

\* imp::FileProps::send_done(success, _): "done" is emitted unless done is set
SendDone(w, success) ==
    IF ~w.done
    THEN [w EXCEPT !.log = Append(w.log, success), !.done = TRUE]
    ELSE w

\* on_close_requested(): returns false, so the window closes
OnCloseRequested(w) == [SendDone(w, FALSE) EXCEPT !.open = FALSE]

\* on_accept_clicked(): send_done(true, true); its close() raises the close
\* request
OnAcceptClicked(w) == OnCloseRequested(SendDone(w, TRUE))

\* the user clicks accept in, or closes, the properties window p; the
\* launcher's "done" closure runs app_release for each "done" emitted
FilePropsEvent(p, event) ==
    /\ ~aborted
    /\ props[p].open
    /\ ReleaseFollowed
    /\ LET w == [props[p] EXCEPT !.first = IF @ = "none" THEN event ELSE @]
           after == IF event = "accept" THEN OnAcceptClicked(w)
                    ELSE OnCloseRequested(w)
       IN  /\ props' = [props EXCEPT ![p] = after]
           /\ \E st \in AppReleaseTimes({AppState},
                                        Len(after.log) - Len(w.log)) :
                 SetAppState(st)
    /\ UNCHANGED <<selectors, dialogs, reply>>
    /\ UNCHANGED batcherVars
    /\ UNCHANGED viewVars
    /\ UNCHANGED <<has_selection, selected_item, returned, typeVars, loading,
                   shown>>

\* the launcher: windows opened from the command line and over D-Bus, and
\* the events of its windows and dialogs
LauncherNext ==
    \/ Activate
    \/ \E method \in Methods, shape \in Shapes, uris \in UriLists :
          MethodCall(method, shape, uris)
    \/ \E s \in SelectorIds, success \in BOOLEAN,
          outcome \in {"opened", "failed", "nothing"} :
          SelectorDone(s, success, outcome)
    \/ DialogResponse
    \/ \E p \in PropsIds, event \in {"accept", "close"} : FilePropsEvent(p, event)

LauncherSpec == Init /\ [][LauncherNext]_vars

\* ------------------------------------------------------------------ claims
\* Every operation sets last, so last' names the operation of a step.

\* C1 as stated: a burst of binds is followed by one flush, and the batch sent
\* holds exactly the URIs bound without thumbnail since the previous flush.
C1_BatchIsObservedSinceFlush ==
    [][(last'.op = "timeout" /\ last'.arg = "yes")
         => (burst = "open" /\ params' = observed)]_vars

\* C1 amended: a burst of binds is followed by one timeout (none is left
\* armed), and with a proxy the batch sent holds exactly the URIs pending at
\* that moment: every URI bound without thumbnail since the previous flush and
\* not removed since by a result or a folder change, and the URIs of earlier
\* flushes that are still pending.
C1_BatchIsPendingKeys ==
    [][last'.op = "timeout"
         => /\ burst = "open"
            /\ burst' = "flushed"
            /\ timers' = {}
            /\ last'.arg = "yes"
                 => /\ calls' = calls + 1
                    /\ params' = DOMAIN no_thumbnails
                    /\ observed \subseteq params']_vars

C1_Witness ==
    /\ last.op = "timeout"
    /\ last.arg = "yes"
    /\ params = KeysOf(folder)
    /\ calls = 1

\* C2: a bind of an entry without thumbnail leaves no timeout armed that
\* expires less than a full window after it, and the timeout fires only when
\* a full window has passed since the latest such bind.
C2_FlushOnlyAfterQuietWindow ==
    /\ \A s \in timers : sinceObserve + s.remaining >= Window
    /\ last.op = "timeout" => sinceObserve >= Window

C2_Witness ==
    /\ last.op = "timeout"
    /\ sinceObserve = Window
    /\ Cardinality(DOMAIN no_thumbnails) = 2

\* C3 as stated: a folder change and dispose abort the outstanding request,
\* leave no_thumbnails empty and no timeout armed, and no result is applied
\* after dispose.
C3_CancellationClearsAll ==
    [][/\ (last'.op = "dispose" \/ folder' # folder)
            => /\ no_thumbnails' = EmptyMap
               /\ timers' = {}
               /\ calls' = 0 \/ cancelled'
       /\ (cancelled /\ last'.op = "done")
            => items' = items]_vars

\* C4: a ThumbnailingDone for URIs of a folder other than the one shown
\* changes neither a grid item nor no_thumbnails, whatever it carries, and
\* neither does the reply of a ThumbnailFiles call.
C4_StaleResultChangesNothing ==
    [][(\/ last'.op = "done" /\ last'.arg # folder
        \/ last'.op = "files_ready")
         => (items' = items /\ no_thumbnails' = no_thumbnails)]_vars

C4_Witness ==
    /\ last.op = "done"
    /\ last.arg # folder
    /\ last.miss
    /\ no_thumbnails # EmptyMap
    /\ \E w \in Items : items[w].thumbnail = NoPath

\* C5: ThumbnailingDone removes from no_thumbnails exactly the keys it names
\* that are pending and sets the path it gives on the grid item stored under
\* each of them; every other pending key keeps its grid item, and a grid item
\* stored under no such key is unchanged.
DoneResults(f) == {ResultOf(c) : c \in ResultMaps(KeysOf(f))}

DoneApplied(r, w) ==
    {r[k] : k \in {x \in DOMAIN r \cap DOMAIN no_thumbnails :
                      no_thumbnails[x] = w /\ IsPath(r[x])}}

WithoutKey(r, k) == [x \in DOMAIN r \ {k} |-> r[x]]

C6_LateResultIsNoOp ==
    \A f \in Folders : \A r \in DoneResults(f) :
        LET outs == ThumbnailingDoneOutcomes(no_thumbnails, items, r)
        IN  /\ \A k \in DOMAIN r \ DOMAIN no_thumbnails :
                  ThumbnailingDoneOutcomes(no_thumbnails, items,
                                           WithoutKey(r, k)) = outs
            /\ DOMAIN r \cap DOMAIN no_thumbnails = {}
                  => outs = {<<no_thumbnails, items>>}
            /\ \A o \in outs :
                  ThumbnailingDoneOutcomes(o[1], o[2], r) = {o}

C6_Witness ==
    /\ last.op = "done"
    /\ last.miss
    /\ ~last.hit
    /\ last.arg = folder
    /\ no_thumbnails # EmptyMap

\* C7: the flush sends the keys of no_thumbnails as one call and leaves
\* no_thumbnails as it is, and so does the reply of the call; a key leaves
\* no_thumbnails only in a ThumbnailingDone that names it or in a folder change.
C7_FlushKeepsPending ==
    [][/\ last'.op = "timeout"
            => /\ no_thumbnails' = no_thumbnails
               /\ last'.arg = "yes"
                    => (params' = DOMAIN no_thumbnails /\ calls' = calls + 1)
       /\ last'.op = "files_ready" => no_thumbnails' = no_thumbnails
       /\ \A k \in DOMAIN no_thumbnails \ DOMAIN no_thumbnails' :
             \/ folder' # folder
             \/ /\ last'.op = "done"
                /\ \E r \in DoneResults(last'.arg) :
                      k \in DOMAIN r /\ OnThumbnailingDone(last'.arg, r)]_vars

C7_Witness ==
    /\ last.op = "files_ready"
    /\ last.arg = "DBusOther"
    /\ no_thumbnails # EmptyMap
    /\ params = DOMAIN no_thumbnails

\* C8 as stated: the reply of a failed ThumbnailFiles call changes nothing of
\* the view, logs nothing when the failure is ServiceUnknown and logs a warning
\* for every other failure.
C8_EveryOtherFailureIsLogged ==
    [][last'.op = "files_ready"
         => /\ UNCHANGED <<folder, no_thumbnails, items, timers, debounce_id>>
            /\ last'.warned <=> last'.arg \notin {"Ok", "ServiceUnknown"}]_vars

\* C9: a bind of an entry without a valid thumbnail stores the grid item
\* bound under the entry's URI, replacing the one stored there, keeps every
\* other key as it is, and leaves exactly one timeout armed, the one
\* debounce_id names.
C9_BindStoresItemAndArmsOneTimer ==
    [][\A w \in Items : \A k \in Keys :
          (last'.op = "bind" /\ last'.arg = "no" /\ OnItemBind(w, k, FALSE))
            => /\ DOMAIN no_thumbnails' = DOMAIN no_thumbnails \cup {k}
               /\ no_thumbnails'[k] = w
               /\ \A x \in DOMAIN no_thumbnails \ {k} :
                     no_thumbnails'[x] = no_thumbnails[x]
               /\ Cardinality(timers') = 1
               /\ \A s \in timers' :
                     s.id = debounce_id' /\ s.remaining = Window]_vars

C9_Witness ==
    /\ last.op = "bind"
    /\ last.arg = "no"
    /\ last.hit
    /\ Cardinality(DOMAIN no_thumbnails) = 2
    /\ Cardinality(timers) = 1

\* C10: a bind of an entry with a valid thumbnail leaves no_thumbnails, the
\* armed timeouts and debounce_id as they are.
C10_ValidBindLeavesBatcher ==
    [][(last'.op = "bind" /\ last'.arg = "yes")
         => UNCHANGED <<no_thumbnails, timers, debounce_id>>]_vars

C10_Witness ==
    /\ last.op = "bind"
    /\ last.arg = "yes"
    /\ timers # {}
    /\ debounce_id # 0
    /\ no_thumbnails # EmptyMap

\* ------------------------------------------- claims on the sorter (SortSpec)
\* the comparator under the flags of the current state
Cmp(a, b) == Sorter(a, b, directories_first, sort_mode, reversed)

InverseOrdering(o) ==
    CASE o = "Smaller" -> "Larger"
      [] o = "Larger" -> "Smaller"
      [] OTHER -> "Equal"

\* C11: with directories-first enabled a directory ranks before every
\* non-directory, in both argument orders, for each criterion and each value of
\* the reversed flag.
C11_DirectoriesRankFirst ==
    directories_first =>
        \A D, F \in FileInfos :
            (IsDirectory(D) /\ ~IsDirectory(F)) =>
                /\ Cmp(D, F) = "Smaller"
                /\ Cmp(F, D) = "Larger"

\* a reversed sort by modification time is in force and the folder holds a
\* directory that the criterion alone would rank after a file
C11_Witness ==
    /\ directories_first
    /\ reversed
    /\ sort_mode = "ModificationTime"
    /\ emitted.op = "set_sorting"
    /\ \E D, F \in entries :
          /\ IsDirectory(D)
          /\ ~IsDirectory(F)
          /\ SortByModificationTime(D, F, reversed) = "Larger"
          /\ Cmp(D, F) = "Smaller"

\* the comparison of the active criterion, as Smaller / Equal / Larger
CriterionOrdering(a, b, mode) ==
    LET c == IF mode = "DisplayName"
             THEN StrCmp(a.display_name, b.display_name)
             ELSE TimeCmp(a.modification_date_time, b.modification_date_time)
    IN  CASE c = "Less" -> "Smaller"
          [] c = "Greater" -> "Larger"
          [] OTHER -> "Equal"

\* C12: when directories-first does not decide, the comparator returns the
\* comparison of the active criterion, inverted when reversed is set; entries
\* equal under the criterion compare Equal for both values of reversed.
C12_CriterionDecides ==
    \A a, b \in FileInfos :
        (~directories_first \/ IsDirectory(a) = IsDirectory(b)) =>
            LET natural == CriterionOrdering(a, b, sort_mode)
            IN  /\ Cmp(a, b) = IF reversed THEN InverseOrdering(natural)
                                           ELSE natural
                /\ natural = "Equal" =>
                      \A rev \in BOOLEAN :
                          Sorter(a, b, directories_first, sort_mode, rev)
                              = "Equal"

\* directories-first is off, the sort is reversed, and the folder holds a
\* directory and a file of the same name and a pair the reversal inverts
C12_Witness ==
    /\ ~directories_first
    /\ reversed
    /\ sort_mode = "DisplayName"
    /\ \E a, b \in entries :
          /\ a # b
          /\ IsDirectory(a) # IsDirectory(b)
          /\ Cmp(a, b) = "Equal"
    /\ \E a, b \in entries :
          /\ CriterionOrdering(a, b, sort_mode) = "Smaller"
          /\ Cmp(a, b) = "Larger"

\* C13: for each criterion, reversed flag and directories-first flag the
\* comparator is a total preorder: reflexive, antisymmetric in its result, and
\* transitive.
C13_ComparatorIsTotalPreorder ==
    \A a, b, c \in FileInfos :
        /\ Cmp(a, b) \in {"Smaller", "Equal", "Larger"}
        /\ Cmp(a, a) = "Equal"
        /\ Cmp(a, b) = InverseOrdering(Cmp(b, a))
        /\ (Cmp(a, b) # "Larger" /\ Cmp(b, c) # "Larger")
              => Cmp(a, c) # "Larger"

\* a sort by modification time with a folder holding three files of which one
\* has no modification time
C13_Witness ==
    /\ sort_mode = "ModificationTime"
    /\ directories_first
    /\ emitted.op = "items_changed"
    /\ \E a, b, c \in entries :
          /\ a.modification_date_time = 0
          /\ Cmp(a, b) = "Smaller"
          /\ Cmp(b, c) = "Smaller"
          /\ Cmp(a, c) = "Smaller"

\* the sort state of the current state
CurrentSort == SortState(sort_mode, reversed)

\* set_reversed called with the opposite of the flag that st holds
FlipReversed(st) == SetReversedResult(st, ~st.reversed)

\* C14: flipping the reversed flag twice, criterion and directories-first
\* left alone, restores the stored sort state and the comparator's result for
\* every pair; a set_reversed step changes nothing but the reversed flag.
C14_ReversingTwiceRestores ==
    [][emitted'.op = "set_reversed" =>
        /\ SortState(sort_mode', reversed') \in
              {CurrentSort, FlipReversed(CurrentSort)}
        /\ directories_first' = directories_first
        /\ LET once == FlipReversed(SortState(sort_mode', reversed'))
               twice == FlipReversed(once)
           IN  /\ once.reversed # reversed'
               /\ once.sort_mode = sort_mode'
               /\ twice = SortState(sort_mode', reversed')
               /\ \A a, b \in FileInfos :
                     Sorter(a, b, directories_first', twice.sort_mode,
                            twice.reversed)
                       = Sorter(a, b, directories_first', sort_mode',
                                reversed')]_vars

\* set_reversed has flipped the flag back to FALSE while sorting by
\* modification time
C14_Witness ==
    /\ emitted.op = "set_reversed"
    /\ emitted.sorter = "Inverted"
    /\ sort_mode = "ModificationTime"
    /\ ~reversed
    /\ entries # {}

\* C15 as stated: every change of the sort criterion, the reversed flag or the
\* directories-first flag emits the sorter's "changed" signal.
C15_EverySortChangeResorts ==
    [][(sort_mode' # sort_mode \/ reversed' # reversed
          \/ directories_first' # directories_first)
        => emitted'.sorter # "none"]_vars

\* C16 as stated: whenever a change of the sort state is announced with the
\* hint Inverted, the comparator after the step is the exact reverse of the
\* comparator before it.
C16_InvertedMeansReversedOrder ==
    [][(emitted'.sorter = "Inverted"
          /\ SortState(sort_mode', reversed') # CurrentSort) =>
        \A a, b \in FileInfos :
            Sorter(a, b, directories_first', sort_mode', reversed')
              = Sorter(b, a, directories_first, sort_mode, reversed)]_vars

\* ----------------------------------------- claims on the filter (FilterSpec)
Re == <<"r", "e">>
Rep == <<"r", "e", "p">>
Ax == <<"a", "x">>

\* C17: when set_search_term replaces a term by a different term, the hint is
\* LessStrict if the new normalized term is a prefix of the old one,
\* MoreStrict if the old one is a prefix of the new one, Different otherwise
\* ("re" to "rep" MoreStrict, "rep" to "re" LessStrict, "re" to "ax"
\* Different); a change from or to no term is Different.
C17_FilterChangeClassification ==
    [][(emitted'.op = "set_search_term" /\ search_term' # search_term) =>
        /\ \E raw \in RawTerms : search_term' = NormalizeTerm(raw)
        /\ IF search_term = None \/ search_term' = None
           THEN emitted'.filter = "Different"
           ELSE LET old == Unwrap(search_term)
                    new == Unwrap(search_term')
                IN  emitted'.filter =
                      IF StartsWith(old, new) THEN "LessStrict"
                      ELSE IF StartsWith(new, old) THEN "MoreStrict"
                      ELSE "Different"
        /\ (search_term = Some(Re) /\ search_term' = Some(Rep))
              => emitted'.filter = "MoreStrict"
        /\ (search_term = Some(Rep) /\ search_term' = Some(Re))
              => emitted'.filter = "LessStrict"
        /\ (search_term = Some(Re) /\ search_term' = Some(Ax))
              => emitted'.filter = "Different"]_vars

\* the term "rep" has replaced a term it extends
C17_Witness ==
    /\ emitted.op = "set_search_term"
    /\ emitted.filter = "MoreStrict"
    /\ search_term = Some(Rep)
    /\ display_mode = "Search"

\* the three conditions of the filter, the search condition on name
FilterConditions(info, name) ==
    /\ search_term = None \/ StartsWith(name, Unwrap(search_term))
    /\ ~directories_only \/ IsDirectory(info)
    /\ show_hidden \/ ~StartsWith(info.display_name, <<".">>)

\* C18 as stated: an entry is visible iff (no term is set or its lowercased
\* display name starts with the term) and (directories-only is off or it is a
\* directory) and (show-hidden is on or its name does not start with '.').
C18_FilterIsConjunction ==
    \A info \in FileInfos :
        Filter(info, search_term, directories_only, show_hidden)
          <=> FilterConditions(info, ToLowercase(info.display_name))

\* C18 amended: the search condition is on the trimmed, lowercased display
\* name; the other two conditions are as stated.
C18_FilterIsConjunctionOnTrimmedName ==
    \A info \in FileInfos :
        Filter(info, search_term, directories_only, show_hidden)
          <=> FilterConditions(info, ToLowercase(Trim(info.display_name)))

\* the term "re" is set and the folder holds an entry whose name has leading
\* whitespace, an entry the term excludes and a hidden entry
C18_Witness ==
    /\ search_term = Some(Re)
    /\ ~show_hidden
    /\ entries = {Report, SpaceRep, DirRe, HiddenDir}
    /\ Visible(entries, search_term, directories_only, show_hidden)
          = {Report, SpaceRep, DirRe}
    /\ emitted.op = "set_search_term"

NormalizedForm(str) == Trim(str) = str /\ ToLowercase(str) = str

\* C20: the stored term is absent or trimmed and lowercased; an absent or empty
\* term excludes no entry; setting a term whose normalized form equals the
\* stored term emits no filter change, leaves the display mode and notifies
\* nothing.
C20_StoredTermIsNormalized ==
    /\ [](search_term = None \/ NormalizedForm(Unwrap(search_term)))
    /\ [](search_term \in {None, Some(<< >>)} =>
            \A info \in FileInfos : Filter(info, search_term, FALSE, TRUE))
    /\ [][\A raw \in RawTerms :
            (emitted'.op = "set_search_term"
               /\ NormalizeTerm(raw) = search_term
               /\ SetSearchTerm(raw))
            => /\ emitted'.filter = "none"
               /\ emitted'.notify = {}
               /\ display_mode' = display_mode
               /\ search_term' = search_term]_vars

\* a term equal to the stored term "re" after normalization has been set
\* while the folder was loading
C20_Witness ==
    /\ emitted.op = "set_search_term"
    /\ emitted.notify = {}
    /\ search_term = Some(Re)
    /\ display_mode = "Loading"

\* ---------------------------------------- claim on the listing (ViewSpec)
\* C19: the folder holds b.txt, the directory A and .hidden; show-hidden off,
\* directories-only off, no search term, directories-first on, sorted by name,
\* not reversed: the visible entries are A and b.txt, listed as A, b.txt.
C19_ScenarioListing ==
    (/\ entries = {BTxt, DirA, Hidden}
     /\ ~show_hidden
     /\ ~directories_only
     /\ search_term = None
     /\ directories_first
     /\ sort_mode = "DisplayName"
     /\ ~reversed)
    => LET visible == Visible(entries, search_term, directories_only,
                              show_hidden)
       IN  /\ visible = {DirA, BTxt}
           /\ SortedListings(visible, directories_first, sort_mode, reversed)
                = {<<DirA, BTxt>>}

\* the scenario's state, reached by loading the folder
C19_Witness ==
    /\ entries = {BTxt, DirA, Hidden}
    /\ ~show_hidden
    /\ ~directories_only
    /\ search_term = None
    /\ directories_first
    /\ sort_mode = "DisplayName"
    /\ ~reversed
    /\ emitted.op = "items_changed"

\* ------------------------------- claims on the type filter (FilterSpec)
TypeFilters == {None} \cup {Some(f) : f \in FileFilters}

\* C21: after any sequence of set_type_filter calls real_filter is absent iff
\* type_filter is absent; when present it accepts inode/directory and every
\* MIME type the caller's filter accepts; and the type_filter read back is the
\* filter the caller passed, with the rules the caller gave it.
C21_DirectoriesExemptFromTypeFilter ==
    /\ [](/\ real_filter = None <=> type_filter = None
          /\ type_filter # None =>
                /\ Accepts(Unwrap(real_filter), "inode/directory")
                /\ \A mime \in MimeTypes :
                      Accepts(Unwrap(type_filter), mime)
                          => Accepts(Unwrap(real_filter), mime)
                /\ Unwrap(type_filter) \in FileFilters)
    /\ [][\A tf \in TypeFilters : SetTypeFilter(tf) => type_filter' = tf]_vars

\* a caller's filter that does not accept directories was set, after another
\* filter with the same rule
C21_Witness ==
    /\ emitted.op = "set_type_filter"
    /\ emitted.notify = {"type-filter", "real-filter"}
    /\ type_filter = Some(FileFilter("images2", {"image/png"}))
    /\ ~Accepts(Unwrap(type_filter), "inode/directory")
    /\ Accepts(Unwrap(real_filter), "inode/directory")

\* C22: the display mode is Search whenever a non-empty search term is active
\* and the listing is not loading, Loading whenever the listing is loading and
\* no search term is active, and Content whenever neither holds.
C22_DisplayModeTracksSearchAndLoading ==
    LET active == search_term # None /\ Unwrap(search_term) # << >>
    IN  /\ (active /\ ~loading) => display_mode = "Search"
        /\ (loading /\ ~active) => display_mode = "Loading"
        /\ (~active /\ ~loading) => display_mode = "Content"

\* ------------------------------------ claims on the selection (SelectSpec)
\* C23: no sequence of operations on the directory view reaches an abort
\* (panic, failed unwrap); every failure path only degrades a visual
\* affordance.
C23_NoOperationAborts == ~aborted

\* --------------------------------------- further claims on the batcher
\* C24: when no proxy was obtained a flush is a silent no-op: no request is
\* issued, no warning is logged, nothing aborts, and the pending set and
\* every grid item are left unchanged.
C24_FlushWithoutProxyIsSilent ==
    [][(last'.op = "timeout" /\ thumbnailer_proxy = "None")
         => /\ UNCHANGED <<calls, params, no_thumbnails, items>>
            /\ ~last'.warned
            /\ ~aborted']_vars

\* the timeout fired with pending URIs after the proxy request had failed
C24_Witness ==
    /\ last.op = "timeout"
    /\ last.arg = "no"
    /\ thumbnailer_proxy = "None"
    /\ ~proxy_request
    /\ DOMAIN no_thumbnails # {}
    /\ calls = 0

\* C25: in directories-only mode has_selection is true exactly when the
\* current folder is a valid real filesystem folder, whatever item is
\* selected, after any sequence of folder changes, selection changes and
\* switches of the mode; and selected() then returns the folder's URI.
C25_DirectoriesOnlySelection ==
    /\ [](directories_only => (has_selection <=> IsValidFolder(folder)))
    /\ [][(Selected /\ directories_only /\ has_selection)
            => returned' = Some(<<FolderUri(folder)>>)]_vars

\* in directories-only mode, with a file selected in the list, selected()
\* returned the URI of the valid current folder
C25_Witness ==
    /\ directories_only
    /\ has_selection
    /\ IsValidFolder(folder)
    /\ selected_item = BTxt
    /\ emitted.op = "selected"
    /\ returned = Some(<<FolderUri(folder)>>)

C27_ThumbnailOnlyForDisplayedEntry ==
    \A w \in Items :
        IsPath(items[w].thumbnail) => items[w].thumbnail = PathOf(shown[w])

\* ------------------------------ claim on the filter hints (FilterSpec)
\* the entries of any folder content that pass the filter
VisibleOf(term, donly, shidden) == Visible(FileInfos, term, donly, shidden)

\* C28: every filter-change hint is sound: a step that announces MoreStrict
\* leaves a visible set that is a subset of the old one, a step that
\* announces LessStrict a superset; enabling show-hidden and disabling
\* directories-only announce LessStrict, the opposite changes MoreStrict, and
\* a setter called with the value already stored announces nothing.
C28_FilterHintsAreSound ==
    [][LET old == VisibleOf(search_term, directories_only, show_hidden)
           new == VisibleOf(search_term', directories_only', show_hidden')
       IN  /\ emitted'.filter = "MoreStrict" => new \subseteq old
           /\ emitted'.filter = "LessStrict" => old \subseteq new
           /\ \A v \in BOOLEAN :
                 SetShowHidden(v) =>
                    emitted'.filter = IF v = show_hidden THEN "none"
                                      ELSE IF v THEN "LessStrict"
                                      ELSE "MoreStrict"
           /\ \A v \in BOOLEAN :
                 SetDirectoriesOnly(v) =>
                    emitted'.filter = IF v = directories_only THEN "none"
                                      ELSE IF v THEN "MoreStrict"
                                      ELSE "LessStrict"
           /\ \A raw \in RawTerms :
                 (SetSearchTerm(raw) /\ search_term' = search_term) =>
                    emitted'.filter = "none"]_vars

\* show-hidden was switched off under a search term and the hint was
\* MoreStrict, with a hidden entry that the step removed from the visible set
C28_Witness ==
    /\ emitted.op = "set_show_hidden"
    /\ emitted.filter = "MoreStrict"
    /\ ~show_hidden
    /\ search_term # None
    /\ \E e \in FileInfos :
          /\ Filter(e, search_term, directories_only, TRUE)
          /\ ~Filter(e, search_term, directories_only, FALSE)

\* ------------------------------ further claims on the batcher (Spec)
\* C29, for finite runs: with the thumbnailing service present (a proxy was
\* obtained) and the view not disposed, every pending URI either was part of
\* the latest request or has a debounce timer armed that will send it.
C29_PendingKeyIsSentOrScheduled ==
    (thumbnailer_proxy = "Some" /\ ~cancelled) =>
        \A k \in DOMAIN no_thumbnails : k \in params \/ timers # {}

\* C30: at most one debounce timer is armed, debounce_id is set exactly when
\* a timer is armed and then names that timer, and the timeout clears
\* debounce_id when it fires.
C30_OneTimerNamedByDebounceId ==
    /\ [](/\ Cardinality(timers) <= 1
          /\ debounce_id # 0 <=> timers # {}
          /\ \A s \in timers : s.id = debounce_id)
    /\ [][last'.op = "timeout" => debounce_id' = 0]_vars

\* a second bind replaced the armed timer, and that timer then fired
C30_Witness ==
    /\ last.op = "timeout"
    /\ burst = "flushed"
    /\ Cardinality(DOMAIN no_thumbnails) = 2
    /\ debounce_id = 0
    /\ timers = {}

\* ------------------------------ further claims on the selection (SelectSpec)
\* C31: when directories-only mode is off, has_selection is true exactly when
\* the selected item is a non-directory entry, after any sequence of
\* selection changes, folder changes and toggles of directories-only.
C31_SelectionOutsideDirectoriesOnly ==
    ~directories_only =>
        (has_selection <=>
            (selected_item # NoItem /\ ~IsDirectory(selected_item)))

\* C32: on_activate selects the item and triggers file-selector.accept iff
\* has_selection is true after that selection; activating a directory item
\* only navigates into it and never triggers accept.
C32_ActivateAcceptsOnlyFiles ==
    [][\A sel \in Selectables :
          OnActivate(sel) =>
             /\ selected_item' = sel
             /\ "file-selector.accept" \in emitted'.notify <=> has_selection'
             /\ IsDirectory(sel) =>
                   "file-selector.accept" \notin emitted'.notify]_vars

\* ------------------------------------- claims on the launcher (LauncherSpec)
\* C33: a file-properties window emits "done" exactly once over its accept
\* clicks and close requests: on the first of them, with success true iff
\* that first event was an accept; the close request raised by the accept
\* does not emit a second "done".
C33_DoneEmittedOnce ==
    \A p \in PropsIds :
        IF props[p].first = "none"
        THEN props[p].log = << >>
        ELSE props[p].log = <<props[p].first = "accept">>

\* accept was clicked in a properties window, which closed after one "done"
\* with success, while another window was closed without accept
C33_Witness ==
    \E p, q \in PropsIds :
        /\ props[p].first = "accept"
        /\ props[p].done
        /\ ~props[p].open
        /\ props[p].log = <<TRUE>>
        /\ props[q].first = "close"
        /\ props[q].log = <<FALSE>>

\* the holds taken and not yet released by the event that matches them
Unreleased ==
    Cardinality({s \in SelectorIds : selectors[s] = "held"})
    + Cardinality({p \in PropsIds : props[p].open /\ ~props[p].done})
    + dialogs

\* C34: hold_count equals the number of holds not yet released, never goes
\* below zero (no underflow, no panic), and the hold guard is held exactly
\* when hold_count > 0.
C34_HoldCountBalanced ==
    /\ ~aborted
    /\ hold_count >= 0
    /\ hold_count = Unreleased
    /\ hold_guard <=> hold_count > 0

\* C35: the dispatcher accepts exactly ShowFolders, ShowItems and
\* ShowItemProperties: any other method yields UnknownMethod, a known method
\* with parameters of the wrong shape yields InvalidArgs, and in both cases
\* no window is opened and the hold count is unchanged.
C35_DispatcherRejectsOtherCalls ==
    [][\A method \in Methods, shape \in Shapes, uris \in UriLists :
          MethodCall(method, shape, uris) =>
             /\ reply' = IF method \notin KnownMethods THEN "UnknownMethod"
                         ELSE IF shape # "(ass)" THEN "InvalidArgs"
                         ELSE "Ok"
             /\ reply' # "Ok" =>
                   UNCHANGED <<selectors, props, dialogs, hold_count,
                               hold_guard, aborted>>]_vars

\* with a selector open, a known method was called with parameters of the
\* wrong shape
C35_Witness ==
    /\ reply = "InvalidArgs"
    /\ hold_count = 1
    /\ hold_guard
    /\ \E s \in SelectorIds : selectors[s] = "held"

====
